---- MODULE Spec2Model ----
(***************************************************************************)
(* Model of src/training/vanilla_es_emitter.py: the NoveltyArchive         *)
(* (circular descriptor buffer with k-nearest-neighbour novelty) and the   *)
(* VanillaESEmitter state machine (init / emit / state_update).            *)
(*                                                                         *)
(* Arrays are sequences: a batch is a sequence of rows, a row a sequence   *)
(* of numbers, so shape[0] of an array is Len of the sequence.  Slot i of  *)
(* the archive (0-based in the code) is element i + 1 of the sequence.     *)
(* Real numbers are exact rationals <<numerator, denominator>>.            *)
(***************************************************************************)
EXTENDS Integers, Sequences, FiniteSets, TLC

VARIABLES
    config,            \* self._config, self._total_generations, self._num_descriptors
    optimizer_state,   \* VanillaESEmitterState.optimizer_state
    offspring,         \* VanillaESEmitterState.offspring
    generation_count,  \* VanillaESEmitterState.generation_count
    novelty_archive,   \* VanillaESEmitterState.novelty_archive (a NoveltyArchive)
    random_key,        \* VanillaESEmitterState.random_key
    caller_key,        \* the random key the caller of init / emit holds
    written,           \* history: the last `size` rows handed to NoveltyArchive.update
    n_updates,         \* history: number of NoveltyArchive.update calls that returned
    n_rows,            \* history: number of rows those calls were handed
    consumed,          \* history: which component was handed which random key
    last               \* the most recent call: its name, inputs and results

vars == <<config, optimizer_state, offspring, generation_count, novelty_archive,
          random_key, caller_key, written, n_updates, n_rows, consumed, last>>

emitter_vars == <<optimizer_state, offspring, generation_count, novelty_archive,
                  random_key>>

----------------------------------------------------------------------------
(* Bounds of the model *)

\* largest archive capacity explored by the archive specification
MaxSize == 2
\* largest number of descriptor rows handed to one NoveltyArchive.update call
MaxRows == 2
\* update calls explored beyond two full turns of the largest archive
ExtraUpdates == 1

----------------------------------------------------------------------------
(* Exact arithmetic *)

Abs(x) == IF x < 0 THEN -x ELSE x

Min(a, b) == IF a < b THEN a ELSE b

Max(a, b) == IF a < b THEN b ELSE a

RECURSIVE GCD(_, _)
GCD(a, b) == IF b = 0 THEN Abs(a) ELSE GCD(b, a % b)

\* the rational n / d in lowest terms with a positive denominator (d # 0)
RatBy(n, d, g) == IF d < 0 THEN <<(-n) \div g, (-d) \div g>> ELSE <<n \div g, d \div g>>

Rat(n, d) == RatBy(n, d, GCD(Abs(n), Abs(d)))

RInt(n) == <<n, 1>>
RAdd(a, b) == Rat(a[1] * b[2] + b[1] * a[2], a[2] * b[2])
RNeg(a) == <<-a[1], a[2]>>
RSub(a, b) == RAdd(a, RNeg(b))
RMul(a, b) == Rat(a[1] * b[1], a[2] * b[2])
RDiv(a, b) == Rat(a[1] * b[2], a[2] * b[1])
RLess(a, b) == a[1] * b[2] < b[1] * a[2]

\* the sum of f[i] over the finite set S of integers
RECURSIVE SumOver(_, _)
SumOver(f, S) ==
    IF S = {} THEN 0
    ELSE LET i == CHOOSE x \in S : TRUE IN f[i] + SumOver(f, S \ {i})

\* the sequence f with every element computed once (TLC recomputes an element
\* of a function expression at each use)
Strict(f) == f \o <<>>

\* jnp.sqrt on the values the model meets: the radicand is a perfect square
Sqrt(n) == CHOOSE r \in 0..n : r * r = n

----------------------------------------------------------------------------
(* Descriptors *)

\* descriptor vectors the model draws from; every pairwise Euclidean distance
\* (0, 3, 4 or 5) is an integer, and the all-zero descriptor is among them
DescVals == {<<0, 0>>, <<3, 0>>, <<0, 4>>}

ZeroDescriptor(num_descriptors) == Strict([c \in 1..num_descriptors |-> 0])

\* batches of r descriptor rows
DescBatches(r) == [1..r -> DescVals]

----------------------------------------------------------------------------
(* NoveltyArchive *)

\* masked distance: jnp.inf, encoded below every real distance's range
inf == -1

\* NoveltyArchive.init
NoveltyArchiveInit(size, num_descriptors) ==
    [archive  |-> Strict([i \in 1..size |-> ZeroDescriptor(num_descriptors)]),
     size     |-> size,
     position |-> 0]

\* the update written at start index s
UpdateSliceAt(operand, update, s) ==
    Strict([i \in 1..Len(operand) |->
        IF s < i /\ i <= s + Len(update) THEN update[i - s] ELSE operand[i]])

DynamicUpdateSlice(operand, update, start) ==
    UpdateSliceAt(operand, update, Max(0, Min(start, Len(operand) - Len(update))))

\* the update shape must fit the operand, or the call raises
UpdateFits(self, descriptor) == Len(descriptor) <= self.size

\* a cursor that never wraps
NewPositionNoWrap(self, descriptor) == self.position + 1

\* new_position = (self.position + 1) % self.size
NewPosition(self, descriptor) == (self.position + 1) % self.size

\* NoveltyArchive.update
NoveltyArchiveUpdate(self, descriptor) ==
    [archive  |-> DynamicUpdateSlice(self.archive, descriptor, self.position),
     size     |-> self.size,
     position |-> NewPosition(self, descriptor)]

\* distance(x, y) == jnp.sqrt(jnp.sum(jnp.square(x - y)))
distance(x, y) ==
    Sqrt(SumOver(Strict([c \in 1..Len(x) |-> (x[c] - y[c]) * (x[c] - y[c])]), 1..Len(x)))

\* a mask that admits only the slots below the cursor
MaskStrict(self) == Strict([j \in 1..self.size |-> (j - 1) < self.position])

\* indices = jnp.arange(0, self.size, step=1) < self.position + 1
Mask(self) == Strict([j \in 1..self.size |-> (j - 1) < self.position + 1])

\* distances of one descriptor to every slot, masked slots set to inf
MaskedBy(self, d, mask) ==
    Strict([j \in 1..self.size |->
        IF mask[j] THEN distance(d, self.archive[j]) ELSE inf])

MaskedDistances(self, d) == MaskedBy(self, d, Mask(self))

\* jax.lax.top_k(-distances, k): the slots of the k smallest distances, inf
\* being the largest and equal values taken by ascending index
TopK(dist, k) ==
    LET Before(a, b) ==
            \/ dist[a] # inf /\ dist[b] = inf
            \/ dist[a] # inf /\ dist[b] # inf /\ dist[a] < dist[b]
            \/ dist[a] = dist[b] /\ a < b
    IN  {j \in DOMAIN dist :
            Cardinality({a \in DOMAIN dist : Before(a, j)}) < k}

\* not-a-number, the mean of no value at all
nan == <<0, 0>>

\* jnp.nanmean over the selected entries, inf turned into nan beforehand
MeanOver(dist, finite) ==
    IF finite = {} THEN nan ELSE Rat(SumOver(dist, finite), Cardinality(finite))

\* a mean that counts every selected slot, a masked one as distance zero
MeanCountingMasked(dist, selected) ==
    Rat(SumOver(Strict([j \in 1..Len(dist) |-> IF dist[j] = inf THEN 0 ELSE dist[j]]),
                selected),
        Cardinality(selected))

NanMean(dist, selected) == MeanOver(dist, {j \in selected : dist[j] # inf})

\* the novelty of one descriptor from its masked distances
NoveltyOf(dist, num_nearest_neighbors) ==
    NanMean(dist, TopK(dist, num_nearest_neighbors))

\* NoveltyArchive.novelty (num_nearest_neighbors <= size, or top_k raises)
NoveltyArchiveNovelty(self, descriptors, num_nearest_neighbors) ==
    Strict([i \in 1..Len(descriptors) |->
        NoveltyOf(MaskedDistances(self, descriptors[i]), num_nearest_neighbors)])

----------------------------------------------------------------------------
(* History of the archive's writes *)

\* the last `size` rows of seq
LastRows(seq, size) ==
    IF Len(seq) <= size THEN seq
    ELSE Strict([i \in 1..size |-> seq[Len(seq) - size + i]])

\* every update call so far wrote exactly one row
SingleRowWrites == n_rows = n_updates

NoCall == [op |-> "none"]

\* placeholder of the emitter's fields while no emitter is constructed
NoEmitter == "no emitter"

----------------------------------------------------------------------------
(* The archive on its own: NoveltyArchive.init, then update and novelty calls *)

InitArchive ==
    /\ \E size \in 1..MaxSize : novelty_archive = NoveltyArchiveInit(size, 2)
    /\ config = NoEmitter
    /\ optimizer_state = NoEmitter
    /\ offspring = NoEmitter
    /\ generation_count = 0
    /\ random_key = NoEmitter
    /\ caller_key = NoEmitter
    /\ written = <<>>
    /\ n_updates = 0
    /\ n_rows = 0
    /\ consumed = {}
    /\ last = NoCall

\* novelty_archive = novelty_archive.update(descriptor)
UpdateCall ==
    /\ n_updates < 2 * MaxSize + ExtraUpdates
    /\ \E r \in 1..MaxRows : \E descriptor \in DescBatches(r) :
          /\ UpdateFits(novelty_archive, descriptor)
          /\ novelty_archive' = NoveltyArchiveUpdate(novelty_archive, descriptor)
          /\ written' = LastRows(written \o descriptor, novelty_archive.size)
          /\ n_updates' = n_updates + 1
          /\ n_rows' = n_rows + r
          /\ last' = [op |-> "update", descriptor |-> descriptor]
    /\ UNCHANGED <<config, optimizer_state, offspring, generation_count,
                   random_key, caller_key, consumed>>

\* novelty_archive.novelty(descriptors, k)
NoveltyCall ==
    /\ \E descriptors \in DescBatches(1) : \E k \in 1..novelty_archive.size :
          last' = [op |-> "novelty", descriptors |-> descriptors, k |-> k,
                   result |-> NoveltyArchiveNovelty(novelty_archive, descriptors, k)]
    /\ UNCHANGED <<config, emitter_vars, caller_key, written, n_updates, n_rows,
                   consumed>>

NextArchive == UpdateCall \/ NoveltyCall

SpecArchive == InitArchive /\ [][NextArchive]_vars

----------------------------------------------------------------------------
(* Arrays: a shape and the elements in row-major order *)

RECURSIVE Prod(_)
Prod(shape) == IF shape = <<>> THEN 1 ELSE Head(shape) * Prod(Tail(shape))

\* number of elements of one entry along axis 0
BlockSize(x) == Prod(Tail(x.shape))

\* x[0]
FirstRow(x) ==
    [shape |-> Tail(x.shape),
     data  |-> Strict([e \in 1..BlockSize(x) |-> x.data[e]])]

\* jnp.repeat(x, n, axis=0): every entry along axis 0 repeated n times in place
RepeatBlocks(x, n, block) ==
    [shape |-> <<x.shape[1] * n>> \o Tail(x.shape),
     data  |-> Strict([e \in 1..(Len(x.data) * n) |->
                   x.data[(((e - 1) \div block) \div n) * block
                          + ((e - 1) % block) + 1]])]

RepeatAxis0(x, n) == RepeatBlocks(x, n, BlockSize(x))

\* jax.random.normal(key, shape): the draw is a function of the key and the
\* shape, stream being the values this key yields
Normal(stream, shape) ==
    [shape |-> shape, data |-> Strict([e \in 1..Prod(shape) |-> stream[e]])]

\* concatenate([x[:, None], -x[:, None]], axis=1).reshape(repeat(x, 2, 0).shape):
\* entry 2i is entry i of x and entry 2i + 1 its negation
MirrorBlocks(x, block) ==
    [shape |-> <<x.shape[1] * 2>> \o Tail(x.shape),
     data  |-> Strict([e \in 1..(Len(x.data) * 2) |->
                   IF ((e - 1) \div block) % 2 = 0
                   THEN x.data[(((e - 1) \div block) \div 2) * block
                               + ((e - 1) % block) + 1]
                   ELSE RNeg(x.data[(((e - 1) \div block) \div 2) * block
                                    + ((e - 1) % block) + 1])])]

\* a mirroring that stacks the halves: the entries of x, then their negations
MirrorNoiseStacked(x) ==
    [shape |-> <<x.shape[1] * 2>> \o Tail(x.shape),
     data  |-> Strict([e \in 1..(Len(x.data) * 2) |->
                   IF e <= Len(x.data) THEN x.data[e]
                   ELSE RNeg(x.data[e - Len(x.data)])])]

MirrorNoise(x) == MirrorBlocks(x, BlockSize(x))

TreeMap(F(_), tree) == Strict([l \in 1..Len(tree) |-> F(tree[l])])

TreeMap2(F(_, _), a, b) == Strict([l \in 1..Len(a) |-> F(a[l], b[l])])

----------------------------------------------------------------------------
(* Random keys: a key is the path of splits that produced it *)

\* jax.random.split(key): <<the new key, the subkey>>
Split(key) == <<Append(key, 0), Append(key, 1)>>

\* the key the scoring function returns: by its contract it splits the key
\* it is given and hands back the new key
ScoringFnKey(key) == Split(key)[1]

----------------------------------------------------------------------------------------------------------------------------------------
(* Optimizer: optax.adam / optax.sgd as first-order update rules *)

Sign(a) == IF a[1] > 0 THEN RInt(1) ELSE IF a[1] < 0 THEN RInt(-1) ELSE RInt(0)

\* self._optimizer.init(params)
OptimizerInit(cfg, params) ==
    IF cfg.adam_optimizer
    THEN [count |-> 0,
          mu    |-> TreeMap(LAMBDA x : Strict([e \in 1..Len(x.data) |-> RInt(0)]),
                            params)]
    ELSE [count |-> 0, mu |-> <<>>]

\* adam's first moment: mu = b1 * mu + (1 - b1) * g, b1 = 9/10
AdamMu(gradient, state) ==
    Strict([l \in 1..Len(gradient) |->
        Strict([e \in 1..Len(gradient[l].data) |->
            RAdd(RMul(<<9, 10>>, state.mu[l][e]),
                 RMul(<<1, 10>>, gradient[l].data[e]))])])

\* adam's step is -learning_rate * m / (sqrt(v) + eps); the model keeps its
\* direction, -learning_rate * sign(mu), which is the step itself on the first
\* update (m / sqrt(v) = g / |g|)
AdamStep(cfg, gradient, state, mu) ==
    <<Strict([l \in 1..Len(gradient) |->
          [shape |-> gradient[l].shape,
           data  |-> Strict([e \in 1..Len(gradient[l].data) |->
                         RNeg(RMul(cfg.learning_rate, Sign(mu[l][e])))])]]),
      [count |-> state.count + 1, mu |-> mu]>>

\* sgd's step: -learning_rate * g; its state is empty
SgdStep(cfg, gradient, state) ==
    <<Strict([l \in 1..Len(gradient) |->
          [shape |-> gradient[l].shape,
           data  |-> Strict([e \in 1..Len(gradient[l].data) |->
                         RNeg(RMul(cfg.learning_rate, gradient[l].data[e]))])]]),
      state>>

\* self._optimizer.update(gradient, optimizer_state): <<updates, new state>>
OptimizerUpdate(cfg, gradient, state) ==
    IF cfg.adam_optimizer
    THEN AdamStep(cfg, gradient, state, AdamMu(gradient, state))
    ELSE SgdStep(cfg, gradient, state)

\* optax.apply_updates(params, updates)
ApplyUpdates(params, updates) ==
    TreeMap2(LAMBDA p, u :
                [shape |-> p.shape,
                 data  |-> Strict([e \in 1..Len(p.data) |->
                               RAdd(p.data[e], u.data[e])])],
             params, updates)

----------------------------------------------------------------------------
(* VanillaESEmitter._es_emitter *)

RECURSIVE RSumOver(_, _)
RSumOver(f, S) ==
    IF S = {} THEN RInt(0)
    ELSE RAdd(f[CHOOSE x \in S : \A y \in S : x <= y],
              RSumOver(f, S \ {CHOOSE x \in S : \A y \in S : x <= y}))

\* sample_number = total_sample_number // 2 under mirroring
SampleNumber(cfg) ==
    IF cfg.sample_mirror THEN cfg.sample_number \div 2 ELSE cfg.sample_number

\* the shape of the noise drawn for leaf x
NoiseShape(cfg, x) == RepeatAxis0(x, SampleNumber(cfg)).shape

\* half_sample_noise (mirrored) or sample_noise (not mirrored): every leaf
\* draws with the same subkey, so leaves of one shape get the same values
DrawnNoise(cfg, parent, stream) ==
    TreeMap(LAMBDA x : Normal(stream, NoiseShape(cfg, x)), parent)

SampleNoise(cfg, drawn) ==
    IF cfg.sample_mirror THEN TreeMap(MirrorNoise, drawn) ELSE drawn

\* mean + sample_sigma * noise
AddNoise(cfg, mean, noise) ==
    [shape |-> mean.shape,
     data  |-> Strict([e \in 1..Len(mean.data) |->
                   RAdd(mean.data[e], RMul(cfg.sample_sigma, noise.data[e]))])]

\* samples = repeat(parent, total_sample_number) + sample_sigma * sample_noise
Samples(cfg, parent, sample_noise) ==
    TreeMap2(LAMBDA x, noise :
                AddNoise(cfg, RepeatAxis0(x, cfg.sample_number), noise),
             parent, sample_noise)

\* number of candidates handed to the scoring function
NumSamples(cfg, parent) == parent[1].shape[1] * cfg.sample_number

\* the shapes the array operations of _es_emitter need to agree, or it raises
EsEmitterShapesAgree(cfg, parent) ==
    /\ \A l \in 1..Len(parent) :
          /\ Len(parent[l].shape) >= 1
          \* samples + sample_sigma * sample_noise
          /\ RepeatAxis0(parent[l], cfg.sample_number).shape[1] =
                (IF cfg.sample_mirror THEN 2 ELSE 1) * NoiseShape(cfg, parent[l])[1]
          \* jnp.reshape(jnp.repeat(ranks.ravel(), ...), x.shape)
          /\ (IF cfg.sample_mirror THEN SampleNumber(cfg)
                                   ELSE NumSamples(cfg, parent))
                = NoiseShape(cfg, parent[l])[1]
    \* jnp.reshape(ranks, (sample_number, 2))
    /\ cfg.sample_mirror => NumSamples(cfg, parent) = 2 * SampleNumber(cfg)
    /\ cfg.sample_rank_norm => cfg.sample_number > 1

\* a single argsort: entry i is the index of the sample of rank i, not the
\* rank of sample i
ArgsortIndices(scores) ==
    Strict([r \in 1..Len(scores) |->
        (CHOOSE i \in 1..Len(scores) :
            Cardinality({j \in 1..Len(scores) :
                \/ RLess(scores[j], scores[i])
                \/ scores[j] = scores[i] /\ j < i}) = r - 1) - 1])

\* ranks = jnp.argsort(jnp.argsort(scores)): the sort is stable, so equal
\* scores rank by ascending index
ArgsortRanks(scores) ==
    Strict([i \in 1..Len(scores) |->
        Cardinality({j \in 1..Len(scores) :
            \/ RLess(scores[j], scores[i])
            \/ scores[j] = scores[i] /\ j < i})])

\* ranks = (ranks / (total_sample_number - 1)) - 0.5
RescaleRanks(cfg, ranks) ==
    Strict([i \in 1..Len(ranks) |->
        RSub(Rat(ranks[i], cfg.sample_number - 1), <<1, 2>>)])

RankNorm(cfg, scores) == RescaleRanks(cfg, ArgsortRanks(scores))

\* a pair reduced to negative - positive
MirrorRanksSwapped(cfg, ranks) ==
    Strict([i \in 1..SampleNumber(cfg) |-> RSub(ranks[2 * i], ranks[2 * i - 1])])

\* a pair reduced to positive + negative
MirrorRanksSum(cfg, ranks) ==
    Strict([i \in 1..SampleNumber(cfg) |-> RAdd(ranks[2 * i - 1], ranks[2 * i])])

\* reshape(ranks, (sample_number, 2)), then rank[0] - rank[1] of every pair
MirrorRanks(cfg, ranks) ==
    Strict([i \in 1..SampleNumber(cfg) |-> RSub(ranks[2 * i - 1], ranks[2 * i])])

\* the weights before the mirror reduction
RankWeights(cfg, scores) ==
    IF cfg.sample_rank_norm THEN RankNorm(cfg, scores) ELSE scores

\* the rank-weights multiplied with the entries of gradient_noise
Ranks(cfg, scores) ==
    IF cfg.sample_mirror THEN MirrorRanks(cfg, RankWeights(cfg, scores))
    ELSE RankWeights(cfg, scores)

\* jnp.multiply(noise, rank), rank i repeated over entry i of the noise
WeightedNoise(noise, ranks, block) ==
    Strict([e \in 1..Len(noise.data) |->
        RMul(noise.data[e], ranks[((e - 1) \div block) + 1])])

\* reshape to (sample_number, -1), -sum over axis 0 / (N * sigma), reshape to
\* the parent's shape, plus l2_coefficient * parent
ReduceGradient(cfg, p, weighted, rows, width) ==
    [shape |-> p.shape,
     data  |-> Strict([c \in 1..width |->
                   RAdd(RDiv(RNeg(RSumOver(Strict([i \in 1..rows |->
                                               weighted[(i - 1) * width + c]]),
                                           1..rows)),
                             RMul(RInt(cfg.sample_number), cfg.sample_sigma)),
                        RMul(cfg.l2_coefficient, p.data[c]))])]

\* the gradient of one leaf
Gradient(cfg, p, noise, ranks) ==
    ReduceGradient(cfg, p, WeightedNoise(noise, ranks, BlockSize(noise)),
                   SampleNumber(cfg), Len(noise.data) \div SampleNumber(cfg))

\* the gradient of every leaf
Gradients(cfg, parent, drawn, ranks) ==
    TreeMap2(LAMBDA p, noise : Gradient(cfg, p, noise, ranks), parent, drawn)

\* the end of _es_emitter: the optimizer's step applied to the parent
EsResult(parent, stepped, split, samples) ==
    [offspring       |-> ApplyUpdates(parent, stepped[1]),
     optimizer_state |-> stepped[2],
     random_key      |-> ScoringFnKey(split[1]),
     subkey          |-> split[2],
     scoring_key     |-> split[1],
     samples         |-> samples]

EsFromNoise(cfg, parent, opt_state, split, drawn, scores) ==
    EsResult(parent,
             OptimizerUpdate(cfg, Gradients(cfg, parent, drawn, Ranks(cfg, scores)),
                             opt_state),
             split,
             Samples(cfg, parent, SampleNoise(cfg, drawn)))

\* _es_emitter(parent, optimizer_state, random_key, scores_fn): scores are
\* scores_fn applied to what the scoring function returned for the samples
EsEmitter(cfg, parent, opt_state, key, stream, scores) ==
    EsFromNoise(cfg, parent, opt_state, Split(key),
                DrawnNoise(cfg, parent, stream), scores)

----------------------------------------------------------------------------
(* VanillaESEmitter: construction, init, emit, state_update *)

\* capacity of the emitter's archive (total_generations)
TotalGenerations == 2
\* state_update calls explored from init
MaxGenerations == 3
\* largest genotype batch handed to init and to state_update
MaxBatch == 2

\* the genotype: two parameter leaves, each of one parameter per genotype
LeafShapes == << <<1>>, <<1>> >>

SampleNumbers == {2}
SampleSigma == <<1, 2>>
LearningRate == <<1, 2>>
L2Coefficient == <<1, 2>>

\* values of a unit-normal draw the model explores
NoiseVals == {RInt(-1), RInt(1)}
\* fitness values the scoring function returns
FitVals == {0, 1}
\* descriptors the emitter's callers and its scoring function return
EmitterDescVals == {<<3, 0>>, <<0, 4>>}

EmitterDescBatches(r) == [1..r -> EmitterDescVals]

\* VanillaESConfig and the constructor's arguments
Configs ==
    [nses_emitter              : BOOLEAN,
     sample_number             : SampleNumbers,
     sample_sigma              : {SampleSigma},
     sample_mirror             : BOOLEAN,
     sample_rank_norm          : BOOLEAN,
     adam_optimizer            : BOOLEAN,
     learning_rate             : {LearningRate},
     l2_coefficient            : {L2Coefficient},
     novelty_nearest_neighbors : {TotalGenerations},
     total_generations         : {TotalGenerations},
     num_descriptors           : {2}]

\* a batch of b genotypes, genotype i having every parameter equal to i - 1
InitGenotypes(b) ==
    Strict([l \in 1..Len(LeafShapes) |->
        [shape |-> <<b>> \o LeafShapes[l],
         data  |-> Strict([e \in 1..(b * Prod(LeafShapes[l])) |->
                       RInt((e - 1) \div Prod(LeafShapes[l]))])]])

\* jax.tree_util.tree_leaves(genotypes)[0].shape[0]
BatchSize(genotypes) == genotypes[1].shape[1]

\* if the batch holds more than one genotype, init_genotypes = x[0] of every leaf
FirstGenotype(init_genotypes) ==
    IF BatchSize(init_genotypes) > 1
    THEN TreeMap(FirstRow, init_genotypes)
    ELSE init_genotypes

\* the state init returns for the genotype it kept
InitialState(cfg, genotypes, key) ==
    [optimizer_state  |-> OptimizerInit(cfg, genotypes),
     offspring        |-> genotypes,
     generation_count |-> 0,
     novelty_archive  |-> NoveltyArchiveInit(cfg.total_generations,
                                             cfg.num_descriptors),
     random_key       |-> key]

\* VanillaESEmitter.init: <<the emitter state, the key returned to the caller>>
EmitterInit(cfg, init_genotypes, key) ==
    <<InitialState(cfg, FirstGenotype(init_genotypes), key), key>>

\* an emit that hands back a fresh key instead of the one it was given
EmitSplittingKey(state_offspring, key) == <<state_offspring, Split(key)[1]>>

\* VanillaESEmitter.emit: <<the genotypes, the key>> it returns
Emit(state_offspring, key) == <<state_offspring, key>>

\* a check that lets every non-empty batch through
AssertBatchSizeAtLeastOne(genotypes) == BatchSize(genotypes) >= 1

\* assert jax.tree_util.tree_leaves(genotypes)[0].shape[0] == 1
AssertBatchSize(genotypes) == BatchSize(genotypes) = 1

\* scoring against the archive as it was before this call's update
ScoringArchiveStale(old_archive, updated_archive) == old_archive

\* the archive the scores closure reads: novelty_archive, the updated one
ScoringArchive(old_archive, updated_archive) == updated_archive

\* scores(fitnesses, descriptors) of state_update
Scores(cfg, archive, fitnesses, descriptors) ==
    IF cfg.nses_emitter
    THEN NoveltyArchiveNovelty(archive, descriptors, cfg.novelty_nearest_neighbors)
    ELSE Strict([i \in 1..Len(fitnesses) |-> RInt(fitnesses[i])])

\* a counter that is only advanced in ES mode
NextGenerationCountESOnly(cfg, count) ==
    IF cfg.nses_emitter THEN count ELSE count + 1

\* generation_count = emitter_state.generation_count + 1
NextGenerationCount(cfg, count) == count + 1

\* what state_update needs besides the batch-size check, or a call it makes raises
StateUpdateDefined(cfg, state, genotypes, descriptors) ==
    /\ UpdateFits(state.novelty_archive, descriptors)
    /\ EsEmitterShapesAgree(cfg, genotypes)
    /\ cfg.nses_emitter => cfg.novelty_nearest_neighbors <= cfg.total_generations

\* emitter_state.replace(...): the state state_update returns, with the
\* scores and the keys the call used
ReplacedState(cfg, state, updated, scores, es) ==
    [optimizer_state  |-> es.optimizer_state,
     offspring        |-> es.offspring,
     novelty_archive  |-> updated,
     generation_count |-> NextGenerationCount(cfg, state.generation_count),
     random_key       |-> es.random_key,
     scores           |-> scores,
     subkey           |-> es.subkey,
     scoring_key      |-> es.scoring_key]

\* the es process run with the scores closure's result
StateUpdateScored(cfg, state, genotypes, updated, stream, scores) ==
    ReplacedState(cfg, state, updated, scores,
                  EsEmitter(cfg, genotypes, state.optimizer_state,
                            state.random_key, stream, scores))

\* the archive is updated first, the scores closure is bound to an archive
StateUpdateWith(cfg, state, genotypes, updated, stream, fitnesses, sample_descriptors) ==
    StateUpdateScored(cfg, state, genotypes, updated, stream,
                      Scores(cfg, ScoringArchive(state.novelty_archive, updated),
                             fitnesses, sample_descriptors))

\* VanillaESEmitter.state_update past its assertion
StateUpdate(cfg, state, genotypes, descriptors, stream, fitnesses, sample_descriptors) ==
    StateUpdateWith(cfg, state, genotypes,
                    NoveltyArchiveUpdate(state.novelty_archive, descriptors),
                    stream, fitnesses, sample_descriptors)

----------------------------------------------------------------------------
(* The emitter's state machine *)

EmitterState ==
    [optimizer_state  |-> optimizer_state,
     offspring        |-> offspring,
     generation_count |-> generation_count,
     novelty_archive  |-> novelty_archive,
     random_key       |-> random_key]

\* the first random key of the run
SeedKey == <<>>

KeyUse(key, by, leaf) == [key |-> key, by |-> by, leaf |-> leaf]

\* the state after emitter.init(init_genotypes, random_key) returned `made`
InitializedTo(cfg, b, made) ==
    /\ config = cfg
    /\ optimizer_state = made[1].optimizer_state
    /\ offspring = made[1].offspring
    /\ generation_count = made[1].generation_count
    /\ novelty_archive = made[1].novelty_archive
    /\ random_key = made[1].random_key
    /\ caller_key = made[2]
    /\ written = <<>>
    /\ n_updates = 0
    /\ n_rows = 0
    /\ consumed = {KeyUse(made[1].random_key, "emitter_state", 0),
                   KeyUse(made[2], "caller", 0)}
    /\ last = [op |-> "init", batch |-> b]

Init ==
    \E cfg \in Configs : \E b \in 1..MaxBatch :
        InitializedTo(cfg, b, EmitterInit(cfg, InitGenotypes(b), SeedKey))

EmitReturned(out) ==
    /\ last' = [op |-> "emit", genotypes |-> out[1], key_in |-> caller_key,
                key_out |-> out[2]]
    /\ caller_key' = out[2]
    /\ UNCHANGED <<config, emitter_vars, written, n_updates, n_rows, consumed>>

\* genotypes, random_key = emitter.emit(repertoire, emitter_state, random_key)
EmitCall == EmitReturned(Emit(offspring, caller_key))

\* the same genotype as a batch of b
Rebatch(genotypes, b) ==
    TreeMap(LAMBDA x : RepeatAxis0([shape |-> <<1>> \o Tail(x.shape),
                                    data  |-> FirstRow(x).data], b),
            genotypes)

\* the genotype batches handed to state_update: the emitted offspring as it
\* is, and the same genotype as a batch of 0..MaxBatch
GenotypeInputs == {offspring} \cup {Rebatch(offspring, b) : b \in 0..MaxBatch}

\* what the scoring function returns for n samples; the output the scoring
\* mode never reads is held at one value
SampleFitnesses(cfg, n) ==
    IF cfg.nses_emitter THEN {[i \in 1..n |-> 0]} ELSE [1..n -> FitVals]

SampleDescriptors(cfg, n) ==
    IF cfg.nses_emitter THEN EmitterDescBatches(n)
    ELSE {[i \in 1..n |-> ZeroDescriptor(cfg.num_descriptors)]}

StateUpdateReturned(new, genotypes, descriptors, fitnesses, sample_descriptors) ==
    /\ optimizer_state' = new.optimizer_state
    /\ offspring' = new.offspring
    /\ generation_count' = new.generation_count
    /\ novelty_archive' = new.novelty_archive
    /\ random_key' = new.random_key
    /\ written' = LastRows(written \o descriptors, novelty_archive.size)
    /\ n_updates' = n_updates + 1
    /\ n_rows' = n_rows + Len(descriptors)
    /\ consumed' = consumed
          \cup {KeyUse(new.subkey, "noise", l) : l \in 1..Len(genotypes)}
          \cup {KeyUse(new.scoring_key, "scoring_fn", 0),
                KeyUse(new.random_key, "emitter_state", 0)}
    /\ last' = [op |-> "state_update", genotypes |-> genotypes,
                descriptors |-> descriptors,
                fitnesses |-> fitnesses,
                sample_descriptors |-> sample_descriptors,
                scores |-> new.scores]

\* emitter_state = emitter.state_update(emitter_state, repertoire, genotypes,
\*                                      fitnesses, descriptors, extra_scores)
StateUpdateCall ==
    /\ generation_count < MaxGenerations
    /\ \E genotypes \in GenotypeInputs :
       \E descriptors \in EmitterDescBatches(BatchSize(genotypes)) :
          /\ AssertBatchSize(genotypes)
          /\ StateUpdateDefined(config, EmitterState, genotypes, descriptors)
          /\ \E stream \in [1..Prod(NoiseShape(config, genotypes[1])) -> NoiseVals] :
             \E fitnesses \in SampleFitnesses(config, NumSamples(config, genotypes)) :
             \E sample_descriptors \in
                    SampleDescriptors(config, NumSamples(config, genotypes)) :
                StateUpdateReturned(
                    StateUpdate(config, EmitterState, genotypes, descriptors,
                                stream, fitnesses, sample_descriptors),
                    genotypes, descriptors, fitnesses, sample_descriptors)
    /\ UNCHANGED <<config, caller_key>>

\* a state_update call stopped by its batch-size assertion
StateUpdateRaises ==
    /\ \E genotypes \in GenotypeInputs :
          /\ ~AssertBatchSize(genotypes)
          /\ last' = [op |-> "state_update_raised", genotypes |-> genotypes]
    /\ UNCHANGED <<config, emitter_vars, caller_key, written, n_updates, n_rows,
                   consumed>>

Next == EmitCall \/ StateUpdateCall \/ StateUpdateRaises

Spec == Init /\ [][Next]_vars

----------------------------------------------------------------------------
(* _es_emitter on its own: one call on a parent, for a scores function *)

\* sample numbers of the es process explored on its own
EsSampleNumbers == {2, 4}

\* configurations of the es process; without mirroring every sample draws its
\* own noise row, so the larger sample number is explored under mirroring
EsConfigs ==
    {cfg \in [nses_emitter              : {FALSE},
              sample_number             : EsSampleNumbers,
              sample_sigma              : {<<1, 10>>},
              sample_mirror             : BOOLEAN,
              sample_rank_norm          : BOOLEAN,
              adam_optimizer            : BOOLEAN,
              learning_rate             : {LearningRate},
              l2_coefficient            : {L2Coefficient},
              novelty_nearest_neighbors : {TotalGenerations},
              total_generations         : {TotalGenerations},
              num_descriptors           : {2}] :
        cfg.sample_mirror \/ cfg.sample_number = 2}

\* parents: a batch of one genotype of two parameters in one leaf
EsParents ==
    {<<[shape |-> <<1, 2>>, data |-> <<RInt(0), RInt(0)>>]>>,
     <<[shape |-> <<1, 2>>, data |-> <<RInt(1), RInt(2)>>]>>}

\* values of a unit-normal draw explored with a scoring function of the samples
EsNoiseVals == {RInt(-1), RInt(1), RInt(2)}
\* values of a unit-normal draw explored with free scores
EsNoiseValsFree == {RInt(-1), RInt(2)}
\* scores the scores function returns
EsScoreVals == {RInt(0), RInt(1), RInt(2), RInt(3)}

\* row i (from 1) of a leaf whose axis 0 indexes the samples
RowOf(x, i) ==
    Strict([c \in 1..BlockSize(x) |-> x.data[(i - 1) * BlockSize(x) + c]])

\* a scoring function: fitness = -(squared norm of the candidate), the
\* candidate being row i of every leaf of the samples
NegSquaredNorm(samples, n) ==
    Strict([i \in 1..n |->
        RNeg(RSumOver(Strict([l \in 1..Len(samples) |->
                 RSumOver(Strict([c \in 1..BlockSize(samples[l]) |->
                              RMul(RowOf(samples[l], i)[c], RowOf(samples[l], i)[c])]),
                          1..BlockSize(samples[l]))]),
             1..Len(samples)))])

InitEs ==
    /\ config \in EsConfigs
    /\ offspring \in EsParents
    /\ optimizer_state = OptimizerInit(config, offspring)
    /\ generation_count = 0
    /\ novelty_archive = NoEmitter
    /\ random_key = SeedKey
    /\ caller_key = NoEmitter
    /\ written = <<>>
    /\ n_updates = 0
    /\ n_rows = 0
    /\ consumed = {}
    /\ last = NoCall

\* the state after _es_emitter returned es for the parent, with the values
\* the call went through
EsReturned(cfg, parent, drawn, scores, scoring, es) ==
    /\ offspring' = es.offspring
    /\ optimizer_state' = es.optimizer_state
    /\ random_key' = es.random_key
    /\ n_updates' = n_updates + 1
    /\ last' = [op             |-> "es_emitter",
                scoring        |-> scoring,
                parent         |-> parent,
                gradient_noise |-> drawn,
                sample_noise   |-> SampleNoise(cfg, drawn),
                samples        |-> es.samples,
                scores         |-> scores,
                weights        |-> RankWeights(cfg, scores),
                ranks          |-> Ranks(cfg, scores),
                gradient       |-> Gradients(cfg, parent, drawn, Ranks(cfg, scores)),
                offspring      |-> es.offspring]
    /\ UNCHANGED <<config, generation_count, novelty_archive, caller_key, written,
                   n_rows, consumed>>

EsCallWith(cfg, parent, drawn, scores, scoring) ==
    EsReturned(cfg, parent, drawn, scores, scoring,
               EsFromNoise(cfg, parent, optimizer_state, Split(random_key),
                           drawn, scores))

\* _es_emitter(parent, optimizer_state, random_key, scores_fn), the scores
\* function returning any scores
EsEmitterCall ==
    /\ n_updates = 0
    /\ EsEmitterShapesAgree(config, offspring)
    /\ \E stream \in [1..Prod(NoiseShape(config, offspring[1])) -> EsNoiseValsFree] :
       \E scores \in [1..NumSamples(config, offspring) -> EsScoreVals] :
          EsCallWith(config, offspring, DrawnNoise(config, offspring, stream),
                     scores, "free")

\* the same call, the scores being the fitnesses of a scoring function that
\* returns -(squared norm) of each sample
EsEmitterCallNegSquaredNorm ==
    /\ n_updates = 0
    /\ EsEmitterShapesAgree(config, offspring)
    /\ \E stream \in [1..Prod(NoiseShape(config, offspring[1])) -> EsNoiseVals] :
          EsCallWith(config, offspring, DrawnNoise(config, offspring, stream),
                     NegSquaredNorm(Samples(config, offspring,
                                            SampleNoise(config,
                                                DrawnNoise(config, offspring, stream))),
                                    NumSamples(config, offspring)),
                     "neg_squared_norm")

NextEs == EsEmitterCall \/ EsEmitterCallNegSquaredNorm

SpecEs == InitEs /\ [][NextEs]_vars

(* CLAIMS *)
----------------------------------------------------------------------------
(* Properties of the archive, checked under SpecArchive *)

\* C1: before the first wrap (fewer than `size` single-row updates so far),
\* novelty leaves unmasked (at a finite distance) no slot whose index is at
\* least the number of writes so far.
C1_OnlyWrittenSlotsAdmitted ==
    (SingleRowWrites /\ n_updates < novelty_archive.size) =>
        \A d \in DescVals : \A j \in 1..novelty_archive.size :
            (j - 1) >= n_updates => MaskedDistances(novelty_archive, d)[j] = inf

\* the archive after S + k single-row writes, 1 <= k <= S: slot s < k holds
\* write S + s + 1 and slot s >= k holds write s + 1 (written keeps the last
\* S rows, written[i] being write k + i)
WrappedSlots(S, k) ==
    \A s \in 0..(S - 1) :
        novelty_archive.archive[s + 1] =
            IF s < k THEN written[S + s + 1 - k] ELSE written[s + 1 - k]

AfterWrap(S, k) == SingleRowWrites /\ n_updates = S + k

\* C2 as stated: after S + k single-row updates (1 <= k <= S) slots 0..k-1
\* hold the last k written descriptors in write order, slots k..S-1 hold
\* writes k+1..S, and position = k.
C2_WrapPositionIsK ==
    \A k \in 1..novelty_archive.size :
        AfterWrap(novelty_archive.size, k) =>
            /\ WrappedSlots(novelty_archive.size, k)
            /\ novelty_archive.position = k

\* C2 amended: the same slots, and position = k mod S (k while k < S, 0 once
\* k = S).
C2_WrapPositionIsKModS ==
    \A k \in 1..novelty_archive.size :
        AfterWrap(novelty_archive.size, k) =>
            /\ WrappedSlots(novelty_archive.size, k)
            /\ novelty_archive.position = k % novelty_archive.size

\* C2 witness: an archive of capacity >= 2 written exactly twice around
C2_Witness ==
    /\ SingleRowWrites
    /\ novelty_archive.size >= 2
    /\ n_updates = 2 * novelty_archive.size
    /\ written[1] # written[2]

IsUpdateStep == n_updates' = n_updates + 1

\* C7 as stated: update with r rows at cursor p writes row j into slot
\* (p + j) mod size and returns position (p + r) mod size.
C7_UpdateWrapsAndAdvancesByRows ==
    [][IsUpdateStep =>
        LET p == novelty_archive.position
            S == novelty_archive.size
            rows == last'.descriptor
        IN  /\ \A j \in 0..(Len(rows) - 1) :
                   novelty_archive'.archive[((p + j) % S) + 1] = rows[j + 1]
            /\ novelty_archive'.position = (p + Len(rows)) % S]_vars

\* what update does instead: with r rows (1 <= r <= size) at cursor p it
\* writes row j into slot min(p, size - r) + j (the block is shifted back to
\* fit, it never wraps), leaves every other slot as it was, and returns
\* position (p + 1) mod size whatever r is; for r = 1 that is slot p.
UpdateClampsAndAdvancesByOne ==
    [][IsUpdateStep =>
        LET p == novelty_archive.position
            S == novelty_archive.size
            rows == last'.descriptor
            start == Min(p, S - Len(rows))
        IN  /\ \A j \in 0..(Len(rows) - 1) :
                   novelty_archive'.archive[start + j + 1] = rows[j + 1]
            /\ \A i \in 1..S :
                   (i <= start \/ i > start + Len(rows)) =>
                       novelty_archive'.archive[i] = novelty_archive.archive[i]
            /\ novelty_archive'.position = (p + 1) % S]_vars

\* a two-row update issued with the cursor on the last slot
TwoRowUpdateAtLastSlot ==
    /\ last.op = "update"
    /\ Len(last.descriptor) = 2
    /\ last.descriptor[1] # last.descriptor[2]
    /\ novelty_archive.size = 2
    /\ n_updates = 2
    /\ n_rows = 3
    /\ novelty_archive.position = 0
    /\ novelty_archive.archive = last.descriptor

----------------------------------------------------------------------------
(* Properties of the emitter, checked under Spec *)

\* a step in which state_update returned a new state
IsStateUpdateStep == n_updates' = n_updates + 1

\* C3: generation_count equals the number of state_update calls that
\* succeeded since init, in NS and in ES mode alike; it never decreases, and
\* emit leaves it alone.
C3_GenerationCounter ==
    /\ [](generation_count = n_updates)
    /\ [][/\ IsStateUpdateStep => generation_count' = generation_count + 1
          /\ generation_count' >= generation_count
          /\ last'.op = "emit" => generation_count' = generation_count]_vars

\* C3 witness: an NS-mode emitter that has been through two state_update
\* calls and an emit
C3_Witness ==
    /\ config.nses_emitter
    /\ generation_count = 2
    /\ n_updates = 2
    /\ last.op = "emit"

\* C4: a state_update call whose genotype batch does not hold exactly one
\* genotype fails and does nothing (no archive write, no optimizer step, no
\* key split, no generation_count increment, no new state); a call with a
\* batch of exactly one is never stopped by the check.
C4_InvalidBatchSize ==
    [][/\ last'.op \in {"state_update", "state_update_raised"} =>
             (last'.op = "state_update_raised" <=> BatchSize(last'.genotypes) # 1)
       /\ last'.op = "state_update_raised" =>
             UNCHANGED <<emitter_vars, written, n_updates, n_rows, consumed>>]_vars

\* C4 witness: after a generation, a call with a batch of two and a call with
\* an empty batch were stopped
C4_Witness ==
    /\ last.op = "state_update_raised"
    /\ BatchSize(last.genotypes) \in {0, 2}
    /\ generation_count >= 1

C8_NoKeySharedByTwoConsumers ==
    \A u1 \in consumed : \A u2 \in consumed : u1.key = u2.key => u1 = u2

\* C9: the archive cursor stays in 0..size-1 and equals generation_count mod
\* total_generations, one append having been made per successful
\* state_update; emit and a failed state_update make none.
C9_OneAppendPerGeneration ==
    /\ [](/\ novelty_archive.position \in 0..(novelty_archive.size - 1)
          /\ novelty_archive.position = generation_count % config.total_generations
          /\ n_updates = generation_count
          /\ n_rows = generation_count)
    /\ [][last'.op \in {"emit", "state_update_raised"} =>
             UNCHANGED <<novelty_archive, n_updates, n_rows, written>>]_vars

\* C9 witness: more generations than the archive has slots, the cursor on
\* slot 1 for the second time
C9_Witness ==
    /\ generation_count > config.total_generations
    /\ novelty_archive.position = 1
    /\ novelty_archive.archive[1] = written[Len(written)]

\* C10: state_update writes the archive before it scores: the returned state
\* holds the archive with this call's descriptor at the old cursor, in NS
\* mode the scores are the novelty of the samples' descriptors against that
\* very archive, and in ES mode the scores are the raw fitnesses (the archive
\* being written all the same).
C10_ArchiveWrittenBeforeScoring ==
    [][IsStateUpdateStep =>
          /\ novelty_archive'.archive[novelty_archive.position + 1]
                = last'.descriptors[1]
          /\ last'.scores =
                IF config.nses_emitter
                THEN NoveltyArchiveNovelty(novelty_archive',
                                           last'.sample_descriptors,
                                           config.novelty_nearest_neighbors)
                ELSE [i \in 1..Len(last'.fitnesses) |-> RInt(last'.fitnesses[i])]]_vars

\* C10 witness: an NS-mode state_update whose scores depend on the descriptor
\* it has just written
C10_Witness ==
    /\ last.op = "state_update"
    /\ config.nses_emitter
    /\ generation_count = 1
    /\ novelty_archive.archive[1] = last.descriptors[1]
    /\ last.sample_descriptors[1] = last.descriptors[1]
    /\ last.sample_descriptors[2] # last.descriptors[1]
    /\ last.scores = NoveltyArchiveNovelty(novelty_archive, last.sample_descriptors,
                                           config.novelty_nearest_neighbors)
    /\ last.scores # NoveltyArchiveNovelty(
                         NoveltyArchiveInit(config.total_generations,
                                            config.num_descriptors),
                         last.sample_descriptors,
                         config.novelty_nearest_neighbors)

----------------------------------------------------------------------------
(* Properties of the es process, checked under SpecEs *)

\* parent row (the batch holds one genotype) plus scale times a noise row
Perturbed(p, scale, row) ==
    [c \in 1..Len(row) |-> RAdd(p.data[c], RMul(scale, row[c]))]

\* C11: under mirroring with an even sample number N the perturbations are
\* interleaved antithetic pairs: for every pair i, perturbation row 2i + 1 is
\* the elementwise negation of row 2i, row 2i is row i of the half noise kept
\* as gradient_noise, and samples 2i and 2i + 1 are parent + sigma * e_i and
\* parent - sigma * e_i.
C11_MirrorAntitheticPairs ==
    (last.op = "es_emitter" /\ config.sample_mirror /\ config.sample_number % 2 = 0) =>
        \A l \in 1..Len(last.parent) :
            /\ last.sample_noise[l].shape[1] = config.sample_number
            /\ \A i \in 1..(config.sample_number \div 2) :
                  /\ RowOf(last.sample_noise[l], 2 * i - 1)
                        = RowOf(last.gradient_noise[l], i)
                  /\ RowOf(last.sample_noise[l], 2 * i)
                        = [c \in 1..BlockSize(last.sample_noise[l]) |->
                              RNeg(RowOf(last.sample_noise[l], 2 * i - 1)[c])]
                  /\ RowOf(last.samples[l], 2 * i - 1)
                        = Perturbed(last.parent[l], config.sample_sigma,
                                    RowOf(last.gradient_noise[l], i))
                  /\ RowOf(last.samples[l], 2 * i)
                        = Perturbed(last.parent[l], RNeg(config.sample_sigma),
                                    RowOf(last.gradient_noise[l], i))

\* C11 witness: a mirrored call of four samples on a parent away from the
\* origin, the two half-noise rows differing
C11_Witness ==
    /\ last.op = "es_emitter"
    /\ config.sample_mirror
    /\ config.sample_number = 4
    /\ last.parent[1].data = <<RInt(1), RInt(2)>>
    /\ RowOf(last.gradient_noise[1], 1) = <<RInt(-1), RInt(2)>>
    /\ RowOf(last.gradient_noise[1], 2) = <<RInt(2), RInt(2)>>
    /\ RowOf(last.samples[1], 3) = <<Rat(12, 10), Rat(22, 10)>>
    /\ RowOf(last.samples[1], 4) = <<Rat(8, 10), Rat(18, 10)>>

\* C12: with rank normalisation and N >= 2 samples the rank-weights are a
\* permutation of the ranks 0..N-1 (equal scores ranked by ascending sample
\* index) rescaled as rank / (N - 1) - 1/2, every weight lies in [-1/2, 1/2],
\* and a sample of strictly greater score has a strictly greater weight.
C12_RankWeights ==
    (last.op = "es_emitter" /\ config.sample_rank_norm /\ config.sample_number >= 2) =>
        LET N == config.sample_number
            w == last.weights
            sc == last.scores
            rank(i) == RMul(RAdd(w[i], <<1, 2>>), RInt(N - 1))
        IN  /\ Len(w) = N
            /\ {rank(i) : i \in 1..N} = {RInt(r) : r \in 0..(N - 1)}
            /\ \A i \in 1..N :
                  /\ ~RLess(w[i], <<-1, 2>>)
                  /\ ~RLess(<<1, 2>>, w[i])
            /\ \A a \in 1..N : \A b \in 1..N :
                  /\ RLess(sc[b], sc[a]) => RLess(w[b], w[a])
                  /\ (sc[a] = sc[b] /\ a < b) => RLess(w[a], w[b])

\* C12 witness: four samples, two of them of equal score
C12_Witness ==
    /\ last.op = "es_emitter"
    /\ config.sample_rank_norm
    /\ config.sample_number = 4
    /\ last.scores = <<RInt(2), RInt(0), RInt(2), RInt(1)>>
    /\ last.weights = <<Rat(1, 6), Rat(-1, 2), Rat(1, 2), Rat(-1, 6)>>

\* squared Euclidean norm of a genotype (all leaves)
SquaredNorm(genotype) ==
    RSumOver([l \in 1..Len(genotype) |->
                 RSumOver([e \in 1..Len(genotype[l].data) |->
                              RMul(genotype[l].data[e], genotype[l].data[e])],
                          1..Len(genotype[l].data))],
             1..Len(genotype))

\* the scenario of C13: four mirrored samples, sigma = 0.1, parent [0, 0],
\* fitness = -(squared norm of the candidate), one call made
NearOriginScenario ==
    /\ last.op = "es_emitter"
    /\ last.scoring = "neg_squared_norm"
    /\ config.sample_number = 4
    /\ config.sample_mirror
    /\ config.sample_sigma = <<1, 10>>
    /\ last.parent[1].data = <<RInt(0), RInt(0)>>

\* C13 as stated: in that scenario the offspring's norm is strictly smaller
\* than the parent's norm.
C13_OffspringNormSmaller ==
    NearOriginScenario =>
        RLess(SquaredNorm(last.offspring), SquaredNorm(last.parent))

\* C13 amended: in that scenario the offspring's norm is never smaller than
\* the parent's (which is 0); without rank normalisation the offspring is the
\* parent, and with it the offspring leaves the origin in exactly the
\* parameters in which the half-noise rows do not sum to zero.
C13_OffspringNormNotSmaller ==
    NearOriginScenario =>
        /\ ~RLess(SquaredNorm(last.offspring), SquaredNorm(last.parent))
        /\ ~config.sample_rank_norm => last.offspring = last.parent
        /\ config.sample_rank_norm =>
              \A c \in 1..2 :
                  (last.offspring[1].data[c] = RInt(0))
                      <=> (RAdd(RowOf(last.gradient_noise[1], 1)[c],
                                RowOf(last.gradient_noise[1], 2)[c]) = RInt(0))

\* C13 witness: the scenario without rank normalisation, the two half-noise
\* rows of different norms, the offspring still at the origin
C13_Witness ==
    /\ NearOriginScenario
    /\ ~config.sample_rank_norm
    /\ RowOf(last.gradient_noise[1], 1) = <<RInt(2), RInt(2)>>
    /\ RowOf(last.gradient_noise[1], 2) = <<RInt(-1), RInt(1)>>
    /\ last.scores = <<Rat(-8, 100), Rat(-8, 100), Rat(-2, 100), Rat(-2, 100)>>
    /\ last.offspring[1].data = <<RInt(0), RInt(0)>>

\* C17: under mirroring with an even N, the weight multiplied with
\* gradient-noise row i is weight(sample 2i) - weight(sample 2i + 1), the
\* reduced weights are N/2, one per gradient-noise row, and the gradient is
\* -(sum over i of weight i times noise row i) / (N * sigma), plus the l2 term.
C17_MirrorWeightReduction ==
    (last.op = "es_emitter" /\ config.sample_mirror /\ config.sample_number % 2 = 0) =>
        LET N == config.sample_number
            half == N \div 2
        IN  /\ Len(last.ranks) = half
            /\ Len(last.weights) = N
            /\ \A i \in 1..half :
                  last.ranks[i] = RSub(last.weights[2 * i - 1], last.weights[2 * i])
            /\ \A l \in 1..Len(last.parent) :
                  /\ last.gradient_noise[l].shape[1] = half
                  /\ \A c \in 1..BlockSize(last.gradient_noise[l]) :
                        last.gradient[l].data[c] =
                            RAdd(RDiv(RNeg(RSumOver(
                                          [i \in 1..half |->
                                              RMul(RowOf(last.gradient_noise[l], i)[c],
                                                   RSub(last.weights[2 * i - 1],
                                                        last.weights[2 * i]))],
                                          1..half)),
                                      RMul(RInt(N), config.sample_sigma)),
                                 RMul(config.l2_coefficient, last.parent[l].data[c]))

\* C17 witness: four mirrored samples whose pairs reduce to weights of
\* opposite signs
C17_Witness ==
    /\ last.op = "es_emitter"
    /\ config.sample_mirror
    /\ ~config.sample_rank_norm
    /\ config.sample_number = 4
    /\ last.weights = <<RInt(3), RInt(1), RInt(0), RInt(2)>>
    /\ last.ranks = <<RInt(2), RInt(-2)>>
    /\ RowOf(last.gradient_noise[1], 1) = <<RInt(2), RInt(-1)>>
    /\ RowOf(last.gradient_noise[1], 2) = <<RInt(-1), RInt(-1)>>
    /\ last.parent[1].data = <<RInt(0), RInt(0)>>
    /\ last.gradient[1].data = <<RInt(-15), RInt(0)>>

----------------------------------------------------------------------------
(* Further properties of the archive, checked under SpecArchive *)

\* the slots the mask admits
AdmittedSlots == {j \in 1..novelty_archive.size : Mask(novelty_archive)[j]}

\* value is the mean of the m smallest of the distances from d to the slots
\* of the set among
MeanOfNearest(value, d, among, m) ==
    \E T \in SUBSET among :
        /\ Cardinality(T) = m
        /\ \A a \in T : \A b \in among \ T :
              distance(d, novelty_archive.archive[a])
                  <= distance(d, novelty_archive.archive[b])
        /\ value = Rat(SumOver([j \in 1..novelty_archive.size |->
                                   distance(d, novelty_archive.archive[j])], T), m)

\* C14: for 1 <= k <= size, novelty returns for each descriptor the mean of
\* its min(k, v) smallest distances to the v >= 1 slots the mask admits: a
\* masked slot the top-k step selected is dropped from the mean, so the result
\* is finite and averages over no masked slot.
C14_MeanOverAdmittedSlots ==
    last.op = "novelty" =>
        /\ Cardinality(AdmittedSlots) >= 1
        /\ \A i \in 1..Len(last.descriptors) :
              /\ last.result[i] # nan
              /\ last.result[i][2] > 0
              /\ MeanOfNearest(last.result[i], last.descriptors[i], AdmittedSlots,
                               Min(last.k, Cardinality(AdmittedSlots)))

\* C14 witness: k = 2 asked of an archive that admits one slot only
C14_Witness ==
    /\ last.op = "novelty"
    /\ last.k = 2
    /\ novelty_archive.size = 2
    /\ novelty_archive.position = 0
    /\ n_updates = 2
    /\ novelty_archive.archive = << <<3, 0>>, <<0, 4>> >>
    /\ last.descriptors = << <<0, 4>> >>
    /\ last.result = <<RInt(5)>>

\* the slots that single-row updates have written so far
WrittenSlots == 1..Min(n_updates, novelty_archive.size)

\* C15: in every archive state reached by single-row updates (at least one),
\* the cursor wrapped or not, novelty(d, k) is the average distance from d to
\* its k nearest descriptors among all those the updates have stored (all of
\* them when fewer than k are stored): every written slot is a candidate.
C15_AllWrittenSlotsAreCandidates ==
    (last.op = "novelty" /\ SingleRowWrites /\ n_updates >= 1) =>
        \A i \in 1..Len(last.descriptors) :
            MeanOfNearest(last.result[i], last.descriptors[i], WrittenSlots,
                          Min(last.k, Cardinality(WrittenSlots)))

\* the archive is full and the cursor is back on slot 0: the mask admits
\* slot 0 alone, whatever the other slots hold
WrappedArchiveAdmitsOneSlot ==
    (SingleRowWrites /\ n_updates >= novelty_archive.size
        /\ novelty_archive.position = 0) =>
            AdmittedSlots = {1}

----------------------------------------------------------------------------
(* Further properties of the emitter, checked under Spec *)

\* C16: init given a batch of b >= 1 genotypes stores as offspring the first
\* genotype of the batch, in the same form whatever b is (the form it stores
\* for a batch of one); the optimizer state is initialised against that
\* genotype, generation_count is 0, and the archive has total_generations
\* all-zero slots and position 0.
C16_InitKeepsFirstGenotype ==
    last.op = "init" =>
        /\ offspring = FirstGenotype(InitGenotypes(1))
        /\ optimizer_state = OptimizerInit(config, offspring)
        /\ generation_count = 0
        /\ novelty_archive.size = config.total_generations
        /\ novelty_archive.position = 0
        /\ novelty_archive.archive =
              [i \in 1..config.total_generations |->
                  [c \in 1..config.num_descriptors |-> 0]]

\* what init does keep: for a batch of two or more the first genotype without
\* its batch axis, for a batch of one the batch itself
InitDropsBatchAxis ==
    last.op = "init" =>
        \A l \in 1..Len(offspring) :
            /\ offspring[l].data = FirstRow(InitGenotypes(last.batch)[l]).data
            /\ offspring[l].shape =
                  IF last.batch > 1 THEN LeafShapes[l] ELSE <<1>> \o LeafShapes[l]

====
